---- MODULE Spec2Model ----
(***************************************************************************)
(* Model of project-orchestrator/scripts: check_status.py (the status      *)
(* aggregator) and init_project.py (the scaffolder).                       *)
(*                                                                         *)
(* Text is modelled at character level: a Python str is a sequence of      *)
(* one-character strings, so that the regular expression of                *)
(* parse_task_file, str.strip, slicing and the substring test of           *)
(* update_gitignore are computed, not assumed.                             *)
(***************************************************************************)
EXTENDS Integers, Sequences, FiniteSets, TLC

VARIABLES
    project,      \* the .project directory: [exists, tasks, prds]
    config,       \* .project/.project-config.json
    gitignore,    \* .gitignore in the project root
    clock,        \* datetime.now(), as a counter
    pc,           \* position of check_status.main
    summary,      \* the dict returned by get_status_summary
    hasSummary,   \* a run of get_status_summary has completed
    changed,      \* the files were edited since the last get_status_summary
    output,       \* lines printed by check_status.main
    calls,        \* functions check_status.main has called in its current run
    rerun,        \* the last get_status_summary re-read files unchanged since the one before
    edits,        \* number of external edits so far
    appended      \* number of times update_gitignore has written its entry

vars == <<project, config, gitignore, clock, pc, summary, hasSummary,
          changed, rerun, output, calls, edits, appended>>

----------------------------------------------------------------------------
(* Bounds of the model. *)

MaxLines == 2
MaxFiles == 2
MaxPrds == 2
MaxEdits == 2
MaxClock == 3
MaxRenderTasks == 23

----------------------------------------------------------------------------
(* Characters and character classes of Python's re (ASCII part). *)

Digits == {"0", "1", "2", "3", "4", "5", "6", "7", "8", "9"}

Letters ==
    {"a", "b", "c", "d", "e", "f", "g", "h", "i", "j", "k", "l", "m",
     "n", "o", "p", "q", "r", "s", "t", "u", "v", "w", "x", "y", "z",
     "A", "B", "C", "D", "E", "F", "G", "H", "I", "J", "K", "L", "M",
     "N", "O", "P", "Q", "R", "S", "T", "U", "V", "W", "X", "Y", "Z"}

\* \w
WordChars == Letters \cup Digits \cup {"_"}

\* \s, also the characters str.strip() removes
Whitespace == {" ", "\t", "\n", "\r", "\f"}

NL == "\n"

Min(a, b) == IF a < b THEN a ELSE b

\* The first position q >= p such that s[q] is not in class (Len(s)+1 when the
\* run reaches the end): where a greedy class+ or class* starting at p stops.
RECURSIVE RunEnd(_, _, _)
RunEnd(s, p, class) ==
    IF p <= Len(s) /\ s[p] \in class THEN RunEnd(s, p + 1, class) ELSE p

\* A literal of the pattern at position p.
HasLit(s, p, lit) ==
    /\ p + Len(lit) - 1 <= Len(s)
    /\ SubSeq(s, p, p + Len(lit) - 1) = lit

\* '$' under re.MULTILINE: the end of the text, or just before a newline.
AtEol(s, p) == p = Len(s) + 1 \/ (p <= Len(s) /\ s[p] = NL)

\* str.strip()
RECURSIVE LStrip(_)
LStrip(s) ==
    IF s # <<>> /\ Head(s) \in Whitespace THEN LStrip(Tail(s)) ELSE s

RECURSIVE RStrip(_)
RStrip(s) ==
    IF s # <<>> /\ s[Len(s)] \in Whitespace
    THEN RStrip(SubSeq(s, 1, Len(s) - 1))
    ELSE s

strip(s) == RStrip(LStrip(s))

----------------------------------------------------------------------------
(* task_pattern =                                                          *)
(*   - \[([ x])\] TASK-(\w+)-(\d+):\s*(.+?)(?:\s+\[(\w+)\])?$   MULTILINE  *)
(* matched the way a backtracking matcher does, in its order of            *)
(* preference.                                                             *)

NoMatch ==
    [ok |-> FALSE, checked |-> " ", prd_id |-> <<>>, task_num |-> <<>>,
     group4 |-> <<>>, hasTag |-> FALSE, group5 |-> <<>>, end |-> 0]

\* (?:\s+\[(\w+)\])?$ with the group taken, at position e.  \s+ and \w+ are
\* greedy; a shorter run of either is followed by a character of its own
\* class, which is neither '[' nor ']', so only the longest run can match.
TagAt(s, e) ==
    LET w == RunEnd(s, e, Whitespace)
        t == RunEnd(s, w + 1, WordChars)
    IN  IF /\ w > e
           /\ w <= Len(s) /\ s[w] = "["
           /\ t > w + 1
           /\ t <= Len(s) /\ s[t] = "]"
           /\ AtEol(s, t + 1)
        THEN [ok |-> TRUE, group5 |-> SubSeq(s, w + 1, t - 1), end |-> t + 1]
        ELSE [ok |-> FALSE, group5 |-> <<>>, end |-> 0]

\* (.+?) holding s[d..e-1], then the rest of the pattern: the optional group
\* is tried first (it is greedy), then '$' alone, then one more character of
\* the description ('.' does not match a newline).
RECURSIVE DescFrom(_, _, _)
DescFrom(s, d, e) ==
    LET tag == TagAt(s, e)
    IN  IF tag.ok
        THEN [ok |-> TRUE, group4 |-> SubSeq(s, d, e - 1), hasTag |-> TRUE,
              group5 |-> tag.group5, end |-> tag.end]
        ELSE IF AtEol(s, e)
        THEN [ok |-> TRUE, group4 |-> SubSeq(s, d, e - 1), hasTag |-> FALSE,
              group5 |-> <<>>, end |-> e]
        ELSE DescFrom(s, d, e + 1)

\* (.+?) starting at d: at least one character that is not a newline.
DescStart(s, d) ==
    IF d <= Len(s) /\ s[d] # NL
    THEN DescFrom(s, d, d + 1)
    ELSE [ok |-> FALSE, group4 |-> <<>>, hasTag |-> FALSE, group5 |-> <<>>,
          end |-> 0]

\* \s* at q having taken k characters: the longest run first, then shorter.
RECURSIVE SpaceThenDesc(_, _, _)
SpaceThenDesc(s, q, k) ==
    LET m == DescStart(s, q + k)
    IN  IF m.ok \/ k = 0 THEN m ELSE SpaceThenDesc(s, q, k - 1)

\* One attempt of the pattern at position p.  (\w+) and (\d+) are greedy and
\* each is followed by a literal outside its class ('-' and ':'), so only
\* their longest runs can match.
MatchAt(s, p) ==
    LET a == p + 11                       \* after "- [c] TASK-"
        b == RunEnd(s, a, WordChars)      \* end of (\w+)
        c == RunEnd(s, b + 1, Digits)     \* end of (\d+)
        q == c + 1                        \* after ':'
    IN  IF /\ HasLit(s, p, <<"-", " ", "[">>)
           /\ p + 3 <= Len(s) /\ s[p + 3] \in {" ", "x"}
           /\ HasLit(s, p + 4, <<"]", " ", "T", "A", "S", "K", "-">>)
           /\ b > a
           /\ b <= Len(s) /\ s[b] = "-"
           /\ c > b + 1
           /\ c <= Len(s) /\ s[c] = ":"
        THEN LET m == SpaceThenDesc(s, q, RunEnd(s, q, Whitespace) - q)
             IN  IF m.ok
                 THEN [ok |-> TRUE, checked |-> s[p + 3],
                       prd_id |-> SubSeq(s, a, b - 1),
                       task_num |-> SubSeq(s, b + 1, c - 1),
                       group4 |-> m.group4, hasTag |-> m.hasTag,
                       group5 |-> m.group5, end |-> m.end]
                 ELSE NoMatch
        ELSE NoMatch

\* task_pattern.finditer(content): the leftmost match from p on, then the
\* scan goes on where that match ended.
RECURSIVE finditer(_, _)
finditer(s, p) ==
    IF p > Len(s) THEN <<>>
    ELSE LET m == MatchAt(s, p)
         IN  IF m.ok THEN <<m>> \o finditer(s, m.end)
             ELSE finditer(s, p + 1)

sDone == <<"d", "o", "n", "e">>
sPending == <<"p", "e", "n", "d", "i", "n", "g">>
sInProgress == <<"i", "n", "_", "p", "r", "o", "g", "r", "e", "s", "s">>
sBlocked == <<"b", "l", "o", "c", "k", "e", "d">>
sCancelled == <<"c", "a", "n", "c", "e", "l", "l", "e", "d">>
sTaskDash == <<"T", "A", "S", "K", "-">>

\* The dict parse_task_file appends for one match.
TaskOfMatch(m, fileName) ==
    [id |-> sTaskDash \o m.prd_id \o <<"-">> \o m.task_num,
     prd_id |-> m.prd_id,
     description |-> strip(m.group4),
     status |-> IF m.hasTag THEN m.group5
                ELSE IF m.checked = "x" THEN sDone ELSE sPending,
     file |-> fileName]

parse_task_file(file) ==
    LET ms == finditer(file.content, 1)
    IN  [i \in 1..Len(ms) |-> TaskOfMatch(ms[i], file.name)]

----------------------------------------------------------------------------
(* The file system.  A directory is [exists, files]; files is the directory *)
(* listing, in the order the operating system returns it; a file is         *)
(* [name, content].                                                         *)

NoDir == [exists |-> FALSE, files |-> <<>>]

sTasksPrefix == <<"T", "A", "S", "K", "S", "-">>
sPrdPrefix == <<"P", "R", "D", "-">>
sMdSuffix == <<".", "m", "d">>
gitkeep == <<".", "g", "i", "t", "k", "e", "e", "p">>

\* Path.glob with a pattern prefix*suffix, applied to one file name.
GlobMatch(name, prefix, suffix) ==
    /\ Len(name) >= Len(prefix) + Len(suffix)
    /\ SubSeq(name, 1, Len(prefix)) = prefix
    /\ SubSeq(name, Len(name) - Len(suffix) + 1, Len(name)) = suffix

find_task_files(project_dir) ==
    IF ~project_dir.tasks.exists THEN <<>>
    ELSE SelectSeq(project_dir.tasks.files,
                   LAMBDA f : GlobMatch(f.name, sTasksPrefix, sMdSuffix))

\* Variant: find_prd_files testing tasks_dir.exists().
find_prd_filesTasksDir(project_dir) ==
    IF ~project_dir.tasks.exists THEN <<>>
    ELSE SelectSeq(project_dir.prds.files,
                   LAMBDA f : GlobMatch(f.name, sPrdPrefix, sMdSuffix))

find_prd_files(project_dir) ==
    IF ~project_dir.prds.exists THEN <<>>
    ELSE SelectSeq(project_dir.prds.files,
                   LAMBDA f : GlobMatch(f.name, sPrdPrefix, sMdSuffix))

----------------------------------------------------------------------------
(* get_status_summary *)

\* status_counts[status] after the counting loop.
CountStatus(all_tasks, status) ==
    Len(SelectSeq(all_tasks, LAMBDA t : t.status = status))

\* round(done_tasks / total_tasks * 100, 1), in tenths of a percent.  Python
\* rounds the float to the nearest tenth, an exact tie (total a multiple of
\* 16) to the even one; the float quotient rounds as the exact one does for
\* every total below 80.
Completion(done_tasks, total_tasks) ==
    IF total_tasks > 0
    THEN LET n == 1000 * done_tasks
             lo == n \div total_tasks
             r == n % total_tasks
         IN  IF 2 * r < total_tasks THEN lo
             ELSE IF 2 * r > total_tasks THEN lo + 1
             ELSE IF lo % 2 = 0 THEN lo ELSE lo + 1
    ELSE 0

\* Variant: total_tasks taken as the sum of the five named counts.
SummaryOfNamedTotal(all_tasks, prd_files) ==
    LET done_tasks == CountStatus(all_tasks, sDone)
        total_tasks == CountStatus(all_tasks, sPending)
                       + CountStatus(all_tasks, sInProgress) + done_tasks
                       + CountStatus(all_tasks, sBlocked)
                       + CountStatus(all_tasks, sCancelled)
    IN  [total_prds |-> Len(prd_files),
         total_tasks |-> total_tasks,
         pending |-> CountStatus(all_tasks, sPending),
         in_progress |-> CountStatus(all_tasks, sInProgress),
         done |-> done_tasks,
         blocked |-> CountStatus(all_tasks, sBlocked),
         cancelled |-> CountStatus(all_tasks, sCancelled),
         completion |-> Completion(done_tasks, total_tasks),
         tasks |-> all_tasks]

\* The dict get_status_summary builds from all_tasks and prd_files.
SummaryOf(all_tasks, prd_files) ==
    LET total_tasks == Len(all_tasks)
        done_tasks == CountStatus(all_tasks, sDone)
    IN  [total_prds |-> Len(prd_files),
         total_tasks |-> total_tasks,
         pending |-> CountStatus(all_tasks, sPending),
         in_progress |-> CountStatus(all_tasks, sInProgress),
         done |-> done_tasks,
         blocked |-> CountStatus(all_tasks, sBlocked),
         cancelled |-> CountStatus(all_tasks, sCancelled),
         completion |-> Completion(done_tasks, total_tasks),
         tasks |-> all_tasks]

\* all_tasks after the loop over task_files[i..].
RECURSIVE ExtendAll(_, _)
ExtendAll(task_files, i) ==
    IF i > Len(task_files) THEN <<>>
    ELSE parse_task_file(task_files[i]) \o ExtendAll(task_files, i + 1)

\* Variant: all_tasks kept from the call before instead of starting empty.
get_status_summaryAccumulating(project_dir) ==
    SummaryOf(summary.tasks \o ExtendAll(find_task_files(project_dir), 1),
              find_prd_files(project_dir))

get_status_summary(project_dir) ==
    SummaryOf(ExtendAll(find_task_files(project_dir), 1),
              find_prd_files(project_dir))

NoSummary == SummaryOf(<<>>, <<>>)

----------------------------------------------------------------------------
(* print_status_summary.  A printed line is [kind, n, text]: kind names the *)
(* fixed text of the line, n is the number it shows, text the characters of *)
(* a task line.                                                             *)

DescriptionWidth == 60
PendingShown == 10

Line(kind, n) == [kind |-> kind, n |-> n, text |-> <<>>]

\* Variant: the ellipsis only after a description that was cut.
TaskLineCapped(task) ==
    [kind |-> "task", n |-> 0,
     text |-> <<" ", " ", "-", " ">> \o task.id \o <<":", " ">>
              \o SubSeq(task.description, 1,
                        Min(DescriptionWidth, Len(task.description)))
              \o (IF Len(task.description) > DescriptionWidth
                  THEN <<".", ".", ".">> ELSE <<>>)]

\* f"  - {task['id']}: {task['description'][:60]}..."
TaskLine(task) ==
    [kind |-> "task", n |-> 0,
     text |-> <<" ", " ", "-", " ">> \o task.id \o <<":", " ">>
              \o SubSeq(task.description, 1,
                        Min(DescriptionWidth, Len(task.description)))
              \o <<".", ".", ".">>]

TaskLines(tasks) == [i \in 1..Len(tasks) |-> TaskLine(tasks[i])]

WithStatus(tasks, status) == SelectSeq(tasks, LAMBDA t : t.status = status)

\* Variant: the "more" line from ten pending tasks on.
PendingSectionOffByOne(tasks) ==
    LET pending == WithStatus(tasks, sPending)
    IN  IF pending = <<>> THEN <<>>
        ELSE <<Line("pending_header", Len(pending))>>
             \o TaskLines(SubSeq(pending, 1, Min(PendingShown, Len(pending))))
             \o (IF Len(pending) >= PendingShown
                 THEN <<Line("more", Len(pending) - PendingShown)>>
                 ELSE <<>>)

\* The "Pending Tasks" section.
PendingSection(tasks) ==
    LET pending == WithStatus(tasks, sPending)
    IN  IF pending = <<>> THEN <<>>
        ELSE <<Line("pending_header", Len(pending))>>
             \o TaskLines(SubSeq(pending, 1, Min(PendingShown, Len(pending))))
             \o (IF Len(pending) > PendingShown
                 THEN <<Line("more", Len(pending) - PendingShown)>>
                 ELSE <<>>)

\* The "In Progress Tasks" and "Blocked Tasks" sections.
UncappedSection(tasks, status, header) ==
    LET listed == WithStatus(tasks, status)
    IN  IF listed = <<>> THEN <<>>
        ELSE <<Line(header, Len(listed))>> \o TaskLines(listed)

print_status_summary(s) ==
    <<Line("banner", 0), Line("title", 0), Line("banner", 0),
      Line("prds", s.total_prds), Line("total_tasks", s.total_tasks),
      Line("breakdown", 0),
      Line("pending", s.pending), Line("in_progress", s.in_progress),
      Line("done", s.done), Line("blocked", s.blocked),
      Line("cancelled", s.cancelled),
      Line("completion", s.completion)>>
    \o PendingSection(s.tasks)
    \o UncappedSection(s.tasks, sInProgress, "in_progress_header")
    \o UncappedSection(s.tasks, sBlocked, "blocked_header")
    \o <<Line("banner", 0)>>

----------------------------------------------------------------------------
(* init_project.py *)

NoProject == [exists |-> FALSE, tasks |-> NoDir, prds |-> NoDir]

HasFile(files, name) == \E i \in 1..Len(files) : files[i].name = name

\* Path.touch(): creates the file empty when it is not there.
Touch(files, name) ==
    IF HasFile(files, name) THEN files
    ELSE Append(files, [name |-> name, content |-> <<>>])

\* mkdir(parents=True, exist_ok=True), then touch .gitkeep in it.
MkdirKeep(dir) ==
    [exists |-> TRUE,
     files |-> Touch(IF dir.exists THEN dir.files ELSE <<>>, gitkeep)]

create_project_structure(p) ==
    [exists |-> TRUE, tasks |-> MkdirKeep(p.tasks), prds |-> MkdirKeep(p.prds)]

NoConfig ==
    [exists |-> FALSE, project_name |-> <<>>, initialized |-> 0,
     task_id_counter |-> 0, prd_id_counter |-> 0, ignore_patterns |-> {}]

ignore_patterns ==
    {".project/tasks/**/node_modules", ".project/tasks/**/__pycache__",
     ".project/tasks/**/.env", ".project/tasks/**/dist",
     ".project/tasks/**/build"}

\* Path(project_dir.parent).name: the name of the directory the command runs in.
DirName == <<"r", "e", "p", "o">>

\* Variant: create_config without the test of config_path.exists().
create_configOverwrite(cfg, project_name, now) ==
    [exists |-> TRUE,
     project_name |-> IF project_name # <<>> THEN project_name ELSE DirName,
     initialized |-> now,
     task_id_counter |-> 0,
     prd_id_counter |-> 0,
     ignore_patterns |-> ignore_patterns]

\* project_name is <<>> for None.
create_config(cfg, project_name, now) ==
    IF cfg.exists THEN cfg
    ELSE [exists |-> TRUE,
          project_name |-> IF project_name # <<>> THEN project_name
                           ELSE DirName,
          initialized |-> now,
          task_id_counter |-> 0,
          prd_id_counter |-> 0,
          ignore_patterns |-> ignore_patterns]

\* "\n# Project management files\n.project/\n"
ignore_entry ==
    <<NL, "#", " ", "P", "r", "o", "j", "e", "c", "t", " ", "m", "a", "n",
      "a", "g", "e", "m", "e", "n", "t", " ", "f", "i", "l", "e", "s", NL,
      ".", "p", "r", "o", "j", "e", "c", "t", "/", NL>>

sProjectSlash == <<".", "p", "r", "o", "j", "e", "c", "t", "/">>

\* sub in s
Contains(s, sub) ==
    \E i \in 1..(Len(s) - Len(sub) + 1) : SubSeq(s, i, i + Len(sub) - 1) = sub

NoGitignore == [exists |-> FALSE, content |-> <<>>]

update_gitignore(g) ==
    IF ~g.exists THEN [exists |-> TRUE, content |-> ignore_entry]
    ELSE IF Contains(g.content, sProjectSlash) THEN g
    ELSE [exists |-> TRUE, content |-> g.content \o ignore_entry]

----------------------------------------------------------------------------
(* Inputs of the model: file names, texts, typed project names. *)

LetterAt == <<"A", "B", "C", "D", "E", "F", "G", "H", "I", "J">>
DigitAt == <<"0", "1", "2", "3", "4", "5", "6", "7", "8", "9">>

TaskFileName(i) == sTasksPrefix \o <<LetterAt[i]>> \o sMdSuffix
PrdFileName(i) == sPrdPrefix \o <<LetterAt[i]>> \o sMdSuffix
nNotes == <<"n", "o", "t", "e", "s", ".", "m", "d">>
nReadme == <<"R", "E", "A", "D", "M", "E", ".", "m", "d">>

\* '- [x] TASK-A-1: a'
lChecked ==
    <<"-", " ", "[", "x", "]", " ", "T", "A", "S", "K", "-", "A", "-", "1",
      ":", " ", "a">>

\* '- [ ] TASK-A-2: b'
lOpen ==
    <<"-", " ", "[", " ", "]", " ", "T", "A", "S", "K", "-", "A", "-", "2",
      ":", " ", "b">>

\* '- [ ] TASK-A-2: b [blocked]'
lBlocked ==
    <<"-", " ", "[", " ", "]", " ", "T", "A", "S", "K", "-", "A", "-", "2",
      ":", " ", "b", " ", "[", "b", "l", "o", "c", "k", "e", "d", "]">>

\* '- [x] TASK-B-3: c [wip]'
lWip ==
    <<"-", " ", "[", "x", "]", " ", "T", "A", "S", "K", "-", "B", "-", "3",
      ":", " ", "c", " ", "[", "w", "i", "p", "]">>

\* '- [ ] TASK-A-6: d [in_progress]'
lInProgress ==
    <<"-", " ", "[", " ", "]", " ", "T", "A", "S", "K", "-", "A", "-", "6",
      ":", " ", "d", " ", "[", "i", "n", "_", "p", "r", "o", "g", "r", "e",
      "s", "s", "]">>

\* '- [x] TASK-A-7: e [cancelled]'
lCancelled ==
    <<"-", " ", "[", "x", "]", " ", "T", "A", "S", "K", "-", "A", "-", "7",
      ":", " ", "e", " ", "[", "c", "a", "n", "c", "e", "l", "l", "e", "d",
      "]">>

\* '- [ ] TASK-A-5: f [done]'
lDoneTag ==
    <<"-", " ", "[", " ", "]", " ", "T", "A", "S", "K", "-", "A", "-", "5",
      ":", " ", "f", " ", "[", "d", "o", "n", "e", "]">>

\* '# H'
lHeading == <<"#", " ", "H">>

\* '[blocked]'
lBareTag == <<"[", "b", "l", "o", "c", "k", "e", "d", "]">>

\* '- [ ] TASK-A-4:'
lNoDescription ==
    <<"-", " ", "[", " ", "]", " ", "T", "A", "S", "K", "-", "A", "-", "4",
      ":">>

lBlank == <<>>

LineTemplates ==
    {lChecked, lOpen, lBlocked, lWip, lInProgress, lCancelled, lDoneTag,
     lHeading, lBareTag, lNoDescription, lBlank}

\* The texts of exactly n lines (n = 0: the empty file), lines joined by "\n".
RECURSIVE TextsOfLines(_)
TextsOfLines(n) ==
    IF n = 0 THEN {<<>>}
    ELSE IF n = 1 THEN LineTemplates
    ELSE {t \o <<NL>> \o l : t \in TextsOfLines(n - 1), l \in LineTemplates}

Texts == UNION {TextsOfLines(n) : n \in 0..MaxLines}

\* The task lists the external editor writes in the full machine.
SampleTexts ==
    {lChecked \o <<NL>> \o lBlocked,
     lHeading \o <<NL>> \o lOpen \o <<NL>> \o lWip,
     lInProgress \o <<NL>> \o lCancelled \o <<NL>>,
     lHeading \o <<NL>>}

TaskDirNames == {TaskFileName(i) : i \in 1..MaxFiles} \cup {nNotes}

\* What the user types at the project-name prompt.
NameInputs == {<<>>, <<" ">>, <<"p">>, <<" ", "q", " ">>}

GitignoreSamples ==
    {NoGitignore,
     [exists |-> TRUE, content |-> <<>>],
     [exists |-> TRUE, content |-> <<"n", NL>>],
     [exists |-> TRUE, content |-> sProjectSlash \o <<NL>>],
     [exists |-> TRUE, content |-> <<"x">> \o sProjectSlash \o <<"y">>],
     [exists |-> TRUE, content |-> <<".", "p", "r", "o", "j", "e", "c", "t", NL>>]}

----------------------------------------------------------------------------
(* check_status.main, step by step. *)

statusVars == <<pc, summary, hasSummary, rerun, output, calls>>
scaffoldVars == <<config, gitignore, clock, appended>>

\* Variant: main without the return after the message.
CheckRootNoReturn ==
    /\ pc = "idle"
    /\ calls' = <<>>
    /\ output' = IF ~project.exists THEN <<Line("not_initialized", 0)>>
                 ELSE <<>>
    /\ pc' = "summarise"
    /\ UNCHANGED <<project, summary, hasSummary, changed, rerun, edits>>
    /\ UNCHANGED <<config, gitignore, clock, appended>>

\* main up to the test of project_dir.exists(): the message and the return,
\* or on to get_status_summary.
CheckRoot ==
    /\ pc = "idle"
    /\ calls' = <<>>
    /\ IF ~project.exists
       THEN /\ output' = <<Line("not_initialized", 0)>>
            /\ pc' = "idle"
       ELSE /\ output' = <<>>
            /\ pc' = "summarise"
    /\ UNCHANGED <<project, summary, hasSummary, changed, rerun, edits>>
    /\ UNCHANGED scaffoldVars

\* summary = get_status_summary(project_dir)
GetSummary ==
    /\ pc = "summarise"
    /\ summary' = get_status_summary(project)
    /\ hasSummary' = TRUE
    /\ rerun' = (hasSummary /\ ~changed)
    /\ changed' = FALSE
    /\ calls' = Append(calls, "get_status_summary")
    /\ pc' = "print"
    /\ UNCHANGED <<project, output, edits>>
    /\ UNCHANGED scaffoldVars

\* print_status_summary(summary), and main returns.
PrintSummary ==
    /\ pc = "print"
    /\ output' = output \o print_status_summary(summary)
    /\ calls' = Append(calls, "print_status_summary")
    /\ pc' = "idle"
    /\ UNCHANGED <<project, summary, hasSummary, changed, rerun, edits>>
    /\ UNCHANGED scaffoldVars

----------------------------------------------------------------------------
(* init_project.main: one run of the scaffolder. *)

InitMain ==
    /\ clock < MaxClock
    /\ \E typed \in NameInputs :
          config' = create_config(config, strip(typed), clock + 1)
    /\ clock' = clock + 1
    /\ project' = create_project_structure(project)
    /\ gitignore' = update_gitignore(gitignore)
    /\ appended' = appended + (IF gitignore' # gitignore THEN 1 ELSE 0)
    /\ changed' = (changed \/ project' # project)
    /\ UNCHANGED <<edits>>
    /\ UNCHANGED statusVars

----------------------------------------------------------------------------
(* Edits made to the project files by the user or another tool, between or *)
(* during runs of the status command.                                      *)

ReplaceFile(files, name, content) ==
    IF HasFile(files, name)
    THEN [i \in 1..Len(files) |->
            IF files[i].name = name
            THEN [name |-> name, content |-> content] ELSE files[i]]
    ELSE Append(files, [name |-> name, content |-> content])

WriteTaskFile ==
    /\ edits < MaxEdits
    /\ project.tasks.exists
    /\ \E name \in TaskDirNames, text \in SampleTexts :
          project' = [project EXCEPT !.tasks.files = ReplaceFile(@, name, text)]
    /\ edits' = edits + 1
    /\ changed' = TRUE
    /\ UNCHANGED statusVars
    /\ UNCHANGED scaffoldVars

WritePrdFile ==
    /\ edits < MaxEdits
    /\ project.prds.exists
    /\ \E i \in 1..MaxPrds :
          /\ ~HasFile(project.prds.files, PrdFileName(i))
          /\ project' = [project EXCEPT
                           !.prds.files = ReplaceFile(@, PrdFileName(i), <<>>)]
    /\ edits' = edits + 1
    /\ changed' = TRUE
    /\ UNCHANGED statusVars
    /\ UNCHANGED scaffoldVars

RemoveDir ==
    /\ edits < MaxEdits
    /\ \/ /\ project.tasks.exists
          /\ project' = [project EXCEPT !.tasks = NoDir]
       \/ /\ project.prds.exists
          /\ project' = [project EXCEPT !.prds = NoDir]
    /\ edits' = edits + 1
    /\ changed' = TRUE
    /\ UNCHANGED statusVars
    /\ UNCHANGED scaffoldVars

----------------------------------------------------------------------------
(* The full machine of the status command: any project directory the       *)
(* scaffolder or the user may have left, then runs and edits interleaved.  *)

KeepDir == [exists |-> TRUE, files |-> <<[name |-> gitkeep, content |-> <<>>]>>]

PrdDir(n) ==
    [exists |-> TRUE,
     files |-> <<[name |-> nReadme, content |-> <<>>]>>
               \o [i \in 1..n |-> [name |-> PrdFileName(i), content |-> <<>>]]]

InitProjects ==
    {NoProject}
    \cup {[exists |-> TRUE, tasks |-> t, prds |-> p] :
            t \in {NoDir, KeepDir},
            p \in {NoDir} \cup {PrdDir(n) : n \in 0..MaxPrds}}

Init ==
    /\ project \in InitProjects
    /\ config = NoConfig
    /\ gitignore = NoGitignore
    /\ clock = 0
    /\ pc = "idle"
    /\ summary = NoSummary
    /\ hasSummary = FALSE
    /\ changed = FALSE
    /\ rerun = FALSE
    /\ output = <<>>
    /\ calls = <<>>
    /\ edits = 0
    /\ appended = 0

Next ==
    \/ CheckRoot
    \/ GetSummary
    \/ PrintSummary
    \/ WriteTaskFile
    \/ WritePrdFile
    \/ RemoveDir

Spec == Init /\ [][Next]_vars

----------------------------------------------------------------------------
(* The status command over one task list, every text of up to MaxLines     *)
(* lines: parse_task_file and get_status_summary as functions of the text. *)

InitParse ==
    /\ \E text \in Texts :
          project = [exists |-> TRUE,
                     tasks |-> [exists |-> TRUE,
                                files |-> <<[name |-> TaskFileName(1),
                                             content |-> text]>>],
                     prds |-> NoDir]
    /\ config = NoConfig
    /\ gitignore = NoGitignore
    /\ clock = 0
    /\ pc = "idle"
    /\ summary = NoSummary
    /\ hasSummary = FALSE
    /\ changed = FALSE
    /\ rerun = FALSE
    /\ output = <<>>
    /\ calls = <<>>
    /\ edits = 0
    /\ appended = 0

NextParse == CheckRoot \/ GetSummary \/ PrintSummary

SpecParse == InitParse /\ [][NextParse]_vars

----------------------------------------------------------------------------
(* print_status_summary as a function of the summary: summaries of up to   *)
(* MaxRenderTasks tasks with descriptions around DescriptionWidth.         *)

StatusPatterns ==
    {<<sPending>>, <<sPending, sBlocked>>, <<sDone, sPending, sInProgress>>,
     <<sBlocked, sInProgress>>}

DescriptionBases == {0, DescriptionWidth - 2, DescriptionWidth - 1}

RenderTask(i, pattern, base) ==
    [id |-> sTaskDash \o <<"R", "-", DigitAt[(i \div 10) + 1], DigitAt[(i % 10) + 1]>>,
     prd_id |-> <<"R">>,
     description |-> [j \in 1..(base + (i % 3)) |-> LetterAt[((i + j) % 10) + 1]],
     status |-> pattern[((i - 1) % Len(pattern)) + 1],
     file |-> TaskFileName(1)]

RenderSummaries ==
    {SummaryOf([i \in 1..n |-> RenderTask(i, pattern, base)], <<>>) :
        n \in 0..MaxRenderTasks, pattern \in StatusPatterns,
        base \in DescriptionBases}

InitRender ==
    /\ summary \in RenderSummaries
    /\ project = NoProject
    /\ config = NoConfig
    /\ gitignore = NoGitignore
    /\ clock = 0
    /\ pc = "print"
    /\ hasSummary = TRUE
    /\ changed = FALSE
    /\ rerun = FALSE
    /\ output = <<>>
    /\ calls = <<"get_status_summary">>
    /\ edits = 0
    /\ appended = 0

NextRender == PrintSummary

SpecRender == InitRender /\ [][NextRender]_vars

----------------------------------------------------------------------------
(* The scaffolder, run again and again from any state of the three things  *)
(* it touches.                                                             *)

ExistingConfigs ==
    {[exists |-> TRUE, project_name |-> n, initialized |-> 0,
      task_id_counter |-> t, prd_id_counter |-> p,
      ignore_patterns |-> ignore_patterns] :
        n \in {DirName, <<"p">>}, t \in 0..1, p \in 0..1}

InitScaffold ==
    /\ project \in InitProjects
    /\ config \in {NoConfig} \cup ExistingConfigs
    /\ gitignore \in GitignoreSamples
    /\ clock = 0
    /\ pc = "idle"
    /\ summary = NoSummary
    /\ hasSummary = FALSE
    /\ changed = FALSE
    /\ rerun = FALSE
    /\ output = <<>>
    /\ calls = <<>>
    /\ edits = 0
    /\ appended = 0

NextScaffold == InitMain

SpecScaffold == InitScaffold /\ [][NextScaffold]_vars

----------------------------------------------------------------------------
(* Properties of the task-line parser, stated on the lines of the text.    *)

\* The lines of a text (str.split("\n")).
RECURSIVE SplitLines(_, _)
SplitLines(s, cur) ==
    IF s = <<>> THEN <<cur>>
    ELSE IF Head(s) = NL THEN <<cur>> \o SplitLines(Tail(s), <<>>)
    ELSE SplitLines(Tail(s), Append(cur, Head(s)))

\* The text of the one task list of the single-file machine.
TheText == project.tasks.files[1].content
TheLines == SplitLines(TheText, <<>>)

\* A line has the task-line shape when, taken alone, it is one task line.
IsTaskLine(l) == Len(finditer(l, 1)) = 1
LineMatch(l) == finditer(l, 1)[1]

\* The word of a bracketed tag that ends the line, <<>> when there is none.
TrailingTag(l) ==
    IF l # <<>> /\ l[Len(l)] = "]"
       /\ \E o \in 1..(Len(l) - 2) :
             /\ l[o] = "["
             /\ \A k \in (o + 1)..(Len(l) - 1) : l[k] \in WordChars
    THEN LET o == CHOOSE o \in 1..(Len(l) - 2) :
                     /\ l[o] = "["
                     /\ \A k \in (o + 1)..(Len(l) - 1) : l[k] \in WordChars
         IN  SubSeq(l, o + 1, Len(l) - 1)
    ELSE <<>>

\* The status the task line l is to get: its tag, else from its checkbox.
LineStatus(l) ==
    IF TrailingTag(l) # <<>> THEN TrailingTag(l)
    ELSE IF LineMatch(l).checked = "x" THEN sDone ELSE sPending

LineId(l) ==
    sTaskDash \o LineMatch(l).prd_id \o <<"-">> \o LineMatch(l).task_num

\* C1: every task line of the text gives a record whose id is
\* "TASK-" + prd_id + "-" + number, whose status is the line's trailing
\* bracketed tag when it has one and otherwise done for a checked and pending
\* for a blank checkbox, and whose description does not hold the tag.
C1_StatusFromTagOrCheckbox ==
    hasSummary =>
        \A i \in 1..Len(TheLines) :
            IsTaskLine(TheLines[i]) =>
                \E k \in 1..Len(summary.tasks) :
                    /\ summary.tasks[k].id = LineId(TheLines[i])
                    /\ summary.tasks[k].status = LineStatus(TheLines[i])
                    /\ ~Contains(summary.tasks[k].description, <<"[">>)

RECURSIVE ParsedLineByLine(_, _)
ParsedLineByLine(ls, i) ==
    IF i > Len(ls) THEN <<>>
    ELSE parse_task_file([name |-> TaskFileName(1), content |-> ls[i]])
         \o ParsedLineByLine(ls, i + 1)

\* C10: the records of a text are those of its lines taken one at a time, in
\* order: a record takes its checkbox, id, description and tag from one line,
\* and a line without the task-line shape adds nothing to any record.
C10_RecordsComeFromSingleLines ==
    hasSummary => summary.tasks = ParsedLineByLine(TheLines, 1)

TaskLinesOf(ls) == {i \in 1..Len(ls) : IsTaskLine(ls[i])}

\* completion is done / total_tasks * 100 to the nearest tenth, 0 for no task.
CompletionIsRounded(s) ==
    IF s.total_tasks = 0 THEN s.completion = 0
    ELSE LET d == s.completion * s.total_tasks - 1000 * s.done
         IN  2 * (IF d < 0 THEN -d ELSE d) <= s.total_tasks

\* The arithmetic half of C2 alone.
C2_RoundedOrZero == hasSummary => CompletionIsRounded(summary)

\* C2: completion is done / total_tasks * 100 rounded to one decimal and 0
\* for no task; a text without task lines gives no record and completion 0;
\* a text whose task lines are all checked and untagged gives 100.0.
C2_Completion ==
    hasSummary =>
        /\ CompletionIsRounded(summary)
        /\ TaskLinesOf(TheLines) = {} =>
              summary.tasks = <<>> /\ summary.completion = 0
        /\ ( /\ TaskLinesOf(TheLines) # {}
             /\ \A i \in TaskLinesOf(TheLines) :
                   /\ LineMatch(TheLines[i]).checked = "x"
                   /\ TrailingTag(TheLines[i]) = <<>> )
           => summary.completion = 1000

----------------------------------------------------------------------------
(* Properties of the summary, in the full machine. *)

KnownStatuses == {sPending, sInProgress, sDone, sBlocked, sCancelled}

NumberWithStatus(tasks, status) ==
    Cardinality({i \in 1..Len(tasks) : tasks[i].status = status})

RECURSIVE RecordsInFiles(_, _)
RecordsInFiles(files, i) ==
    IF i > Len(files) THEN 0
    ELSE Len(parse_task_file(files[i])) + RecordsInFiles(files, i + 1)

NamedTotal(s) == s.pending + s.in_progress + s.done + s.blocked + s.cancelled

\* C3: each of the five named fields is the number of records with exactly
\* that status, total_tasks is the number of all records of all task files
\* (a repeated id counts each time), and the five fields add up to at most
\* total_tasks, to exactly total_tasks when no record has another status.
C3_NamedCountsAndTotal ==
    hasSummary =>
        /\ summary.pending = NumberWithStatus(summary.tasks, sPending)
        /\ summary.in_progress = NumberWithStatus(summary.tasks, sInProgress)
        /\ summary.done = NumberWithStatus(summary.tasks, sDone)
        /\ summary.blocked = NumberWithStatus(summary.tasks, sBlocked)
        /\ summary.cancelled = NumberWithStatus(summary.tasks, sCancelled)
        /\ summary.total_tasks = Len(summary.tasks)
        /\ ~changed =>
              summary.total_tasks
                  = RecordsInFiles(find_task_files(project), 1)
        /\ NamedTotal(summary) <= summary.total_tasks
        /\ NamedTotal(summary) = summary.total_tasks
              <=> \A i \in 1..Len(summary.tasks) :
                     summary.tasks[i].status \in KnownStatuses

\* Two files hold the same id, one record has a status outside the five,
\* and the summary is the one of the files as they are.
C3_Witness ==
    /\ hasSummary /\ ~changed
    /\ \E i, j \in 1..Len(summary.tasks) :
          /\ i # j
          /\ summary.tasks[i].id = summary.tasks[j].id
          /\ summary.tasks[i].file # summary.tasks[j].file
    /\ \E i \in 1..Len(summary.tasks) :
          summary.tasks[i].status \notin KnownStatuses
    /\ NamedTotal(summary) < summary.total_tasks
    /\ summary.pending > 0

NumberOfPrdFiles(dir) ==
    Cardinality({i \in 1..Len(dir.files) :
                    GlobMatch(dir.files[i].name, sPrdPrefix, sMdSuffix)})

\* C4: with .project there and tasks/ missing, no task file is found and the
\* summary has total_tasks 0 and completion 0 while total_prds is still the
\* number of prds/PRD-*.md files; with prds/ missing, total_prds is 0 and the
\* tasks are counted as usual.
C4_MissingSubdirectory ==
    (hasSummary /\ ~changed /\ project.exists) =>
        /\ ~project.tasks.exists =>
              /\ find_task_files(project) = <<>>
              /\ summary.total_tasks = 0
              /\ summary.completion = 0
              /\ summary.total_prds = NumberOfPrdFiles(project.prds)
        /\ ~project.prds.exists =>
              /\ summary.total_prds = 0
              /\ summary.total_tasks
                    = RecordsInFiles(find_task_files(project), 1)

\* tasks/ is missing, prds/ holds one PRD file, and the summary is made.
C4_Witness ==
    /\ hasSummary /\ ~changed /\ project.exists
    /\ ~project.tasks.exists
    /\ NumberOfPrdFiles(project.prds) = 1
    /\ summary.total_prds = 1
    /\ pc = "idle" /\ Len(calls) = 2

NotInitialized == <<Line("not_initialized", 0)>>

\* C8: when .project is missing the status command prints one message
\* and returns, calling neither get_status_summary nor print_status_summary
\* and leaving the summary alone; when it is there, get_status_summary is
\* called first and print_status_summary after it.
C8_RootDirectoryGate ==
    [][ /\ (pc = "idle" /\ ~project.exists)
           => /\ pc' = "idle"
              /\ calls' \in {calls, <<>>}
              /\ output' \in {output, NotInitialized}
              /\ summary' = summary /\ hasSummary' = hasSummary
        /\ (pc = "idle" /\ project.exists /\ calls' # calls)
           => pc' = "summarise" /\ calls' = <<>> /\ output' = <<>>
        /\ pc' = "summarise" => calls' = <<>>
        /\ pc' = "print" => calls' = <<"get_status_summary">>
        /\ (pc' = "idle" /\ calls' # <<>>)
           => calls' = <<"get_status_summary", "print_status_summary">>
        /\ output' = NotInitialized => calls' = <<>> /\ pc' = "idle" ]_vars

\* The command has run where .project is missing.
C8_Witness ==
    /\ ~project.exists
    /\ pc = "idle"
    /\ output = NotInitialized
    /\ calls = <<>>
    /\ ~hasSummary

----------------------------------------------------------------------------
(* Properties of the report, for summaries of many tasks. *)

Printed == pc = "idle" /\ Len(calls) = 2

LinesOfKind(kind) == {i \in 1..Len(output) : output[i].kind = kind}

\* The line shows this task: "  - <id>: " starts it.
ShowsTask(line, task) ==
    /\ line.kind = "task"
    /\ HasLit(line.text, 1,
              <<" ", " ", "-", " ">> \o task.id \o <<":", " ">>)

\* C6: with N pending tasks the report lists the first min(N, 10) of them, in
\* summary order, right after the "Pending Tasks" header, then
\* "... and N-10 more" if and only if N > 10; with N = 0 it has no
\* "Pending Tasks" section.
C6_PendingPagination ==
    Printed =>
        LET pend == SelectSeq(summary.tasks, LAMBDA t : t.status = sPending)
            N == Len(pend)
            shown == Min(N, PendingShown)
        IN  /\ N = 0 => /\ LinesOfKind("pending_header") = {}
                        /\ LinesOfKind("more") = {}
            /\ N > 0 =>
                  /\ Cardinality(LinesOfKind("pending_header")) = 1
                  /\ \A h \in LinesOfKind("pending_header") :
                        /\ output[h].n = N
                        /\ \A k \in 1..shown : ShowsTask(output[h + k], pend[k])
                        /\ IF N > PendingShown
                           THEN /\ output[h + shown + 1].kind = "more"
                                /\ output[h + shown + 1].n = N - PendingShown
                           ELSE output[h + shown + 1].kind \notin {"task", "more"}
                  /\ Cardinality(LinesOfKind("more"))
                        = (IF N > PendingShown THEN 1 ELSE 0)

\* Fifteen pending tasks: ten listed, then "... and 5 more".
C6_Witness ==
    /\ Printed
    /\ summary.pending = 15
    /\ \E h \in LinesOfKind("pending_header") :
          /\ output[h].n = 15
          /\ output[h + 10].kind = "task"
          /\ output[h + 11] = Line("more", 5)

ListedStatuses == {sPending, sInProgress, sBlocked}

\* C7: a task line of the report is "  - ", the id, ": ", the first 60
\* characters of the description (all of it when it has no more), and "...",
\* which is there whatever the length of the description.
C7_TruncationAndEllipsis ==
    Printed =>
        \A i \in LinesOfKind("task") :
            \E k \in 1..Len(summary.tasks) :
                LET t == summary.tasks[k]
                    w == Min(DescriptionWidth, Len(t.description))
                    text == output[i].text
                    at == 4 + Len(t.id) + 2
                IN  /\ t.status \in ListedStatuses
                    /\ ShowsTask(output[i], t)
                    /\ Len(text) = at + w + 3
                    /\ \A j \in 1..w : text[at + j] = t.description[j]
                    /\ \A j \in 1..3 : text[at + w + j] = "."

\* A blocked task whose description has 61 characters is shown with 60 of
\* them, and a task with a shorter description is shown with the ellipsis too.
C7_Witness ==
    /\ Printed
    /\ \E i \in LinesOfKind("task"), k \in 1..Len(summary.tasks) :
          /\ ShowsTask(output[i], summary.tasks[k])
          /\ summary.tasks[k].status = sBlocked
          /\ Len(summary.tasks[k].description) = DescriptionWidth + 1
          /\ Len(output[i].text) = 4 + Len(summary.tasks[k].id) + 2
                                     + DescriptionWidth + 3
    /\ \E i \in LinesOfKind("task"), k \in 1..Len(summary.tasks) :
          /\ ShowsTask(output[i], summary.tasks[k])
          /\ Len(summary.tasks[k].description) = DescriptionWidth - 1
          /\ output[i].text[Len(output[i].text)] = "."

----------------------------------------------------------------------------
(* Properties of the scaffolder. *)

IsPrefix(a, b) == Len(a) <= Len(b) /\ SubSeq(b, 1, Len(a)) = a

\* C9: a run of the scaffolder leaves an existing configuration file as it
\* is and writes a new one (name, time of the run, counters at 0) only when
\* there is none; it adds its entry to the ignore file only when the file
\* does not hold ".project/", at most once over all runs, and what the file
\* held before stays at its start.
C9_RerunIsSafe ==
    [][ /\ config.exists => config' = config
        /\ ~config.exists =>
              /\ config'.exists
              /\ config'.initialized = clock'
              /\ config'.task_id_counter = 0 /\ config'.prd_id_counter = 0
              /\ config'.project_name \in {DirName, <<"p">>, <<"q">>}
        /\ gitignore.exists => IsPrefix(gitignore.content, gitignore'.content)
        /\ (gitignore.exists /\ Contains(gitignore.content, sProjectSlash))
           => gitignore' = gitignore
        /\ gitignore' # gitignore
           => gitignore'.content = gitignore.content \o ignore_entry
        /\ gitignore'.exists /\ Contains(gitignore'.content, sProjectSlash)
        /\ appended' <= 1 ]_vars

\* After a second run: the configuration is the one the first run wrote, the
\* entry was added once, after the line the ignore file already had.
C9_Witness ==
    /\ clock >= 2
    /\ config.exists /\ config.initialized = 1
    /\ config.project_name = <<"q">>
    /\ appended = 1
    /\ gitignore.content = <<"n", NL>> \o ignore_entry

====
